---- MODULE Spec2Model ----
(***************************************************************************)
(* Model of the accumulator package of gdotgordon/action                   *)
(* (src/main.go lines 26-174): AddAction, GetStats and insertSorted, run   *)
(* by goroutines that share one Accumulator guarded by a sync.RWMutex.     *)
(*                                                                         *)
(* Action names are strings; a string is modelled as the sequence of its   *)
(* characters over a two-letter alphabet (1 = "a", 2 = "b"), so that       *)
(* strings.Compare is the lexicographic comparison the code uses.          *)
(* Durations are float64 in the code; the model keeps them as integers and *)
(* an average as the exact fraction <<numerator, denominator>> in lowest   *)
(* terms.  Sums of small integers are exact in float64 and float64         *)
(* division is a function of the exact quotient, so two averages are equal *)
(* in the code when their fractions are equal here.                        *)
(***************************************************************************)
EXTENDS Integers, Sequences, FiniteSets, Bags, TLC

\* Bounds of the model: the calls made by the concurrent goroutines, the calls
\* made by the sequential driver, and the largest duration submitted.
MaxCalls == 3
MaxSeqCalls == 4
MaxTime == 2

\* Bounds of the check of insertSorted on its own: the longest string and the
\* longest list it is given.
MaxNameLen == 2
MaxListLen == 4

\* The largest finite float64, scaled down: a sum above it is +Inf.
MaxFloat == 100

\* The longest list of events of the sample driver.
MaxEvents == 3

Threads == {"g1", "g2"}
Driver == "g1"

\* The action names the goroutines submit: "a", "ab", "b".
Names == {<<1>>, <<1, 2>>, <<2>>}
EmptyName == <<>>

(***************************************************************************)
(* strings.Compare: -1, 0 or 1 by lexicographic order.                     *)
(***************************************************************************)
RECURSIVE Compare(_, _)
Compare(a, b) ==
    IF a = <<>> /\ b = <<>> THEN 0
    ELSE IF a = <<>> THEN -1
    ELSE IF b = <<>> THEN 1
    ELSE IF Head(a) < Head(b) THEN -1
    ELSE IF Head(a) > Head(b) THEN 1
    ELSE Compare(Tail(a), Tail(b))

(***************************************************************************)
(* insertSorted (src/main.go 146-174).  Indices low, high, mid are the     *)
(* code's 0-based indices; list[mid] is list[mid + 1] of the sequence.     *)
(* BinarySearch is the loop of lines 150-162: it returns found = TRUE on   *)
(* case 0 (the key is in the list) and otherwise the final low.            *)
(***************************************************************************)
\* The loop with the two moves of lines 158 and 160 exchanged.
RECURSIVE BinarySearch_Flipped(_, _, _, _)
BinarySearch_Flipped(key, list, low, high) ==
    IF low <= high
    THEN LET mid == (low + high) \div 2
             c == Compare(key, list[mid + 1])
         IN  IF c = 0 THEN [found |-> TRUE, low |-> mid]
             ELSE IF c = -1 THEN BinarySearch_Flipped(key, list, mid + 1, high)
             ELSE BinarySearch_Flipped(key, list, low, mid - 1)
    ELSE [found |-> FALSE, low |-> low]

\* The loop running while low < high.
RECURSIVE BinarySearch_StrictLoop(_, _, _, _)
BinarySearch_StrictLoop(key, list, low, high) ==
    IF low < high
    THEN LET mid == (low + high) \div 2
             c == Compare(key, list[mid + 1])
         IN  IF c = 0 THEN [found |-> TRUE, low |-> mid]
             ELSE IF c = -1 THEN BinarySearch_StrictLoop(key, list, low, mid - 1)
             ELSE BinarySearch_StrictLoop(key, list, mid + 1, high)
    ELSE [found |-> FALSE, low |-> low]

RECURSIVE BinarySearch(_, _, _, _)
BinarySearch(key, list, low, high) ==
    IF low <= high
    THEN LET mid == (low + high) \div 2
             c == Compare(key, list[mid + 1])
         IN  IF c = 0 THEN [found |-> TRUE, low |-> mid]
             ELSE IF c = -1 THEN BinarySearch(key, list, low, mid - 1)
             ELSE BinarySearch(key, list, mid + 1, high)
    ELSE [found |-> FALSE, low |-> low]

\* insertSorted without the search: the key goes to the end of the list.
insertSorted_Append(key, list) ==
    IF \E i \in 1..Len(list) : list[i] = key THEN list ELSE Append(list, key)

\* insertSorted that puts the key in front of the list.
insertSorted_Front(key, list) ==
    IF \E i \in 1..Len(list) : list[i] = key THEN list ELSE <<key>> \o list

\* insertSorted that inserts after list[low] instead of before it.
insertSorted_AfterLow(key, list) ==
    LET r == BinarySearch(key, list, 0, Len(list) - 1)
    IN  IF r.found THEN list
        ELSE IF r.low = Len(list) THEN Append(list, key)
        ELSE SubSeq(list, 1, r.low + 1) \o (<<key>> \o SubSeq(list, r.low + 2, Len(list)))

insertSorted(key, list) ==
    LET r == BinarySearch(key, list, 0, Len(list) - 1)
    IN  IF r.found THEN list
        ELSE IF r.low = Len(list) THEN Append(list, key)
        ELSE SubSeq(list, 1, r.low) \o (<<key>> \o SubSeq(list, r.low + 1, Len(list)))

(***************************************************************************)
(* The JSON text passed to AddAction, by its shape.  kind is "syntax" for  *)
(* text that is not JSON, "null" for the literal null, "array" for a JSON  *)
(* value that is neither null nor an object, "object" for an object whose  *)
(* "action" and "time" members are each absent, a string or a number.      *)
(***************************************************************************)
Absent == [t |-> "absent", s |-> <<>>, n |-> 0]
Str(s) == [t |-> "string", s |-> s, n |-> 0]
Num(n) == [t |-> "number", s |-> <<>>, n |-> n]

NotObject(k) == [kind |-> k, action |-> Absent, time |-> Absent]
Object(a, tm) == [kind |-> "object", action |-> a, time |-> tm]

ActionMembers == {Absent, Num(1), Str(EmptyName)} \cup {Str(s) : s \in Names}
TimeMembers == {Absent, Str(<<1>>), Num(-1)} \cup {Num(n) : n \in 0..MaxTime}

RawInputs ==
    {NotObject("syntax"), NotObject("null"), NotObject("array")}
        \cup {Object(a, tm) : a \in ActionMembers, tm \in TimeMembers}

\* The inputs of the concurrent goroutines: every valid event, and one input
\* of each kind that AddAction does not record.
WorkerInputs ==
    {Object(Str(s), Num(n)) : s \in Names, n \in 0..MaxTime}
        \cup {NotObject("syntax"), NotObject("null"), Object(Absent, Num(1)),
              Object(Str(<<1>>), Num(-1)), Object(Str(<<2>>), Absent)}

(***************************************************************************)
(* json.Unmarshal([]byte(action), &input) with input of type *Input        *)
(* (src/main.go 45-49, 93-96).  The result is the error ("" for nil), and  *)
(* the pointer: nil, or an Input whose fields keep their zero value when   *)
(* the member is absent.  JSON null decodes into a pointer by setting it   *)
(* to nil, without an error.                                               *)
(***************************************************************************)
Unmarshal(raw) ==
    CASE raw.kind = "syntax" ->
            [err |-> "invalid character", nil |-> TRUE, Action |-> EmptyName, Time |-> 0]
      [] raw.kind = "null" ->
            [err |-> "", nil |-> TRUE, Action |-> EmptyName, Time |-> 0]
      [] raw.kind = "array" ->
            [err |-> "cannot unmarshal", nil |-> FALSE, Action |-> EmptyName, Time |-> 0]
      [] OTHER ->
            [err |-> IF raw.action.t = "number" \/ raw.time.t = "string"
                     THEN "cannot unmarshal" ELSE "",
             nil |-> FALSE,
             Action |-> IF raw.action.t = "string" THEN raw.action.s ELSE EmptyName,
             Time |-> IF raw.time.t = "number" THEN raw.time.n ELSE 0]

(***************************************************************************)
(* The checks of AddAction before it takes the lock (src/main.go 94-102):  *)
(* the error it returns, "" when the input passes, "panic" when input is   *)
(* the nil pointer that line 97 dereferences.                              *)
(***************************************************************************)
\* The checks without the one of line 97 for a nil input or an empty name.
InputError_NoNameCheck(u) ==
    IF u.err # "" THEN u.err
    ELSE IF u.Time < 0 THEN "negative time"
    ELSE ""

\* The checks without the one of line 100.
InputError_NoTimeCheck(u) ==
    IF u.err # "" THEN u.err
    ELSE IF u.nil THEN "panic"
    ELSE IF u.Action = EmptyName THEN "missing action"
    ELSE ""

InputError(u) ==
    IF u.err # "" THEN u.err
    ELSE IF u.nil THEN "panic"
    ELSE IF u.Action = EmptyName THEN "missing action"
    ELSE IF u.Time < 0 THEN "negative time"
    ELSE ""

(***************************************************************************)
(* float64 division a / b as the fraction in lowest terms.                 *)
(***************************************************************************)
RECURSIVE GCD(_, _)
GCD(a, b) == IF b = 0 THEN a ELSE GCD(b, a % b)

\* +Inf, and float64 addition of non-negative values: it overflows to +Inf.
Inf == MaxFloat + 1
InfAvg == <<1, 0>>
FAdd(a, b) == IF a + b > MaxFloat THEN Inf ELSE a + b

Quot(a, b) == IF a = Inf THEN InfAvg ELSE LET g == GCD(a, b) IN <<a \div g, b \div g>>

(***************************************************************************)
(* Item (src/main.go 54-59) and the statements of AddAction's critical     *)
(* section that build or change one (lines 112, 115, 116, 117).            *)
(***************************************************************************)
\* An Item made without its name.
NewItem_NoName(in) == [Action |-> EmptyName, Avg |-> Quot(in.Time, 1), count |-> 1, sum |-> in.Time]

NewItem(in) == [Action |-> in.Action, Avg |-> Quot(in.Time, 1), count |-> 1, sum |-> in.Time]
\* Line 115 with = for +=.
AddSum_Assign(item, in) == [item EXCEPT !.sum = in.Time]

AddSum(item, in) == [item EXCEPT !.sum = FAdd(item.sum, in.Time)]
\* Line 116 dividing by the count before the new event.
SetAvg_OldCount(item) == [item EXCEPT !.Avg = Quot(item.sum, item.count)]

SetAvg(item) == [item EXCEPT !.Avg = Quot(item.sum, item.count + 1)]
IncCount(item) == [item EXCEPT !.count = item.count + 1]

(***************************************************************************)
(* sync.RWMutex (src/main.go 77): the number of goroutines holding the     *)
(* write lock and the number holding a read lock.  Lock waits for no       *)
(* holder at all, RLock waits for no writer.                               *)
(***************************************************************************)
\* A Lock that does not wait for another writer.
CanLock_NoWriterWait(m) == m.readers = 0

\* A Lock that does not wait for the readers.
CanLock_NoReaderWait(m) == m.writers = 0

CanLock(m) == m.writers = 0 /\ m.readers = 0

\* An RLock that does not wait for the writer.
CanRLock_NoWait(m) == TRUE

\* An RLock that also waits for the other readers.
CanRLock_Exclusive(m) == m.writers = 0 /\ m.readers = 0

CanRLock(m) == m.writers = 0

(***************************************************************************)
(* GetStats, lines 129-134: res holds one pointer per key, nil when the    *)
(* map has no entry for it; a pointer is modelled by the key of the item   *)
(* it points to.  MarshalIndent writes the exported fields Action and Avg  *)
(* of each item, and null for a nil pointer.                               *)
(***************************************************************************)
\* res made one element longer than acc.keys.
CopyPointers_ExtraSlot(ks, its) ==
    [i \in 1..(Len(ks) + 1) |->
        IF i <= Len(ks) /\ ks[i] \in DOMAIN its THEN [nil |-> FALSE, key |-> ks[i]]
        ELSE [nil |-> TRUE, key |-> EmptyName]]

CopyPointers(ks, its) ==
    [i \in 1..Len(ks) |->
        IF ks[i] \in DOMAIN its THEN [nil |-> FALSE, key |-> ks[i]]
        ELSE [nil |-> TRUE, key |-> EmptyName]]

MarshalIndent(r, its) ==
    [i \in 1..Len(r) |->
        IF r[i].nil THEN [null |-> TRUE, action |-> EmptyName, avg |-> <<0, 1>>]
        ELSE [null |-> FALSE, action |-> its[r[i].key].Action, avg |-> its[r[i].key].Avg]]

\* The error of MarshalIndent: encoding/json has no encoding for +Inf.
MarshalError(r, its) ==
    IF \E i \in 1..Len(r) : ~r[i].nil /\ its[r[i].key].Avg = InfAvg
    THEN "unsupported value" ELSE ""

Snapshot(ks, its) == MarshalIndent(CopyPointers(ks, its), its)

VARIABLES
    keys,       \* acc.keys
    items,      \* acc.items
    mu,         \* acc.mu
    aborted,    \* the process died of a panic
    pc,         \* where each goroutine is
    input,      \* AddAction's decoded input
    res,        \* GetStats's res
    ret,        \* what the call returned
    calls,      \* number of calls started
    raw,        \* the argument of the AddAction call in progress
    pre,        \* keys and items when the call started, for GetStats and a rejected AddAction
    submitted,  \* bag of the valid events passed to AddAction
    onlyValid,  \* every AddAction call so far was passed a valid event
    recorded,   \* names for which an AddAction call returned nil
    committed,  \* snapshot of the state at the last Unlock
    seen,       \* committed snapshots since the GetStats call in progress started
    lastStats,  \* result of the last GetStats call, if no AddAction succeeded since
    succeeded,  \* bag of the events of the AddAction calls that reached return nil
    ins,        \* a call of insertSorted on its own: key, list and result
    drv         \* the sample driver: its list of events, where it is, what it printed

vars == <<keys, items, mu, aborted, pc, input, res, ret, calls, raw, pre,
          submitted, onlyValid, recorded, committed, seen, lastStats, succeeded, ins, drv>>

history == <<submitted, onlyValid, recorded, committed, seen, lastStats, succeeded, ins, drv>>

NoInput == [Action |-> EmptyName, Time |-> 0]
NoRaw == NotObject("none")
NoRet == [op |-> "none", err |-> "", out |-> <<>>]
NoPre == [set |-> FALSE, keys |-> <<>>, items |-> <<>>]
NoStats == [some |-> FALSE, out |-> <<>>]
NoIns == [key |-> EmptyName, list |-> <<>>, out |-> <<>>, done |-> FALSE]
NoDrv == [list |-> <<>>, state |-> "loop", err |-> "", printed |-> NoStats]

\* A valid event: an object with a non-empty action name and a duration >= 0.
IsValidEvent(r) ==
    /\ r.kind = "object"
    /\ r.action.t = "string" /\ r.action.s # EmptyName
    /\ r.time.t = "number" /\ r.time.n >= 0

Event(r) == [name |-> r.action.s, time |-> r.time.n]

\* New (src/main.go 81-86).
NewAccumulator ==
    /\ keys = <<>>
    /\ items = <<>>
    /\ mu = [writers |-> 0, readers |-> 0]
    /\ aborted = FALSE
    /\ pc = [t \in Threads |-> "idle"]
    /\ input = [t \in Threads |-> NoInput]
    /\ res = [t \in Threads |-> <<>>]
    /\ ret = [t \in Threads |-> NoRet]
    /\ calls = 0
    /\ raw = [t \in Threads |-> NoRaw]
    /\ pre = [t \in Threads |-> NoPre]
    /\ submitted = EmptyBag
    /\ onlyValid = TRUE
    /\ recorded = {}
    /\ committed = <<>>
    /\ seen = [t \in Threads |-> {}]
    /\ lastStats = NoStats
    /\ succeeded = EmptyBag

Init == NewAccumulator /\ ins = NoIns /\ drv = NoDrv

(***************************************************************************)
(* AddAction, lines 91-102: decode and check the input.  It returns the    *)
(* error, panics on the nil pointer, or goes on to take the lock.          *)
(***************************************************************************)
AddActionCheck(t, r, budget) ==
    /\ ~aborted /\ pc[t] = "idle" /\ calls < budget
    /\ LET u == Unmarshal(r)
           e == InputError(u)
       IN  /\ aborted' = (e = "panic")
           /\ pc' = [pc EXCEPT ![t] = IF e = "panic" THEN "panic"
                                      ELSE IF e # "" THEN "aa_ret" ELSE "aa_lock"]
           /\ input' = [input EXCEPT ![t] = IF e = "" THEN [Action |-> u.Action, Time |-> u.Time]
                                                      ELSE NoInput]
           /\ ret' = [ret EXCEPT ![t] = IF e \notin {"", "panic"}
                                        THEN [op |-> "AddAction", err |-> e, out |-> <<>>]
                                        ELSE NoRet]
    /\ calls' = calls + 1
    /\ raw' = [raw EXCEPT ![t] = r]
    /\ pre' = [pre EXCEPT ![t] = IF InputError(Unmarshal(r)) \notin {"", "panic"}
                                  THEN [set |-> TRUE, keys |-> keys, items |-> items]
                                  ELSE NoPre]
    /\ submitted' = IF IsValidEvent(r) THEN submitted (+) SetToBag({Event(r)}) ELSE submitted
    /\ onlyValid' = (onlyValid /\ IsValidEvent(r))
    /\ UNCHANGED <<keys, items, mu, res, recorded, committed, seen, lastStats, succeeded, ins, drv>>

\* acc.mu.Lock(), line 104.
AddActionLock(t) ==
    /\ ~aborted /\ pc[t] = "aa_lock"
    /\ CanLock(mu)
    /\ mu' = [mu EXCEPT !.writers = mu.writers + 1]
    /\ pc' = [pc EXCEPT ![t] = "aa_lookup"]
    /\ UNCHANGED <<keys, items, aborted, input, res, ret, calls, raw, pre>>
    /\ UNCHANGED history

\* item, ok := acc.items[input.Action], lines 108-109.
AddActionLookup(t) ==
    /\ ~aborted /\ pc[t] = "aa_lookup"
    /\ pc' = [pc EXCEPT ![t] = IF input[t].Action \in DOMAIN items THEN "aa_sum" ELSE "aa_keys"]
    /\ UNCHANGED <<keys, items, mu, aborted, input, res, ret, calls, raw, pre>>
    /\ UNCHANGED history

\* Line 111 without the assignment: the result of insertSorted is dropped.
AddActionKeys_Discard(t) ==
    /\ ~aborted /\ pc[t] = "aa_keys"
    /\ pc' = [pc EXCEPT ![t] = "aa_item"]
    /\ UNCHANGED <<keys, items, mu, aborted, input, res, ret, calls, raw, pre>>
    /\ UNCHANGED history

\* acc.keys = insertSorted(input.Action, acc.keys), line 111.
AddActionKeys(t) ==
    /\ ~aborted /\ pc[t] = "aa_keys"
    /\ keys' = insertSorted(input[t].Action, keys)
    /\ pc' = [pc EXCEPT ![t] = "aa_item"]
    /\ UNCHANGED <<items, mu, aborted, input, res, ret, calls, raw, pre>>
    /\ UNCHANGED history

\* acc.items[input.Action] = &Item{...}, line 112.
AddActionItem(t) ==
    /\ ~aborted /\ pc[t] = "aa_item"
    /\ items' = (input[t].Action :> NewItem(input[t])) @@ items
    /\ pc' = [pc EXCEPT ![t] = "aa_unlock"]
    /\ UNCHANGED <<keys, mu, aborted, input, res, ret, calls, raw, pre>>
    /\ UNCHANGED history

\* item.sum += input.Time, line 115.
AddActionSum(t) ==
    /\ ~aborted /\ pc[t] = "aa_sum"
    /\ items' = [items EXCEPT ![input[t].Action] = AddSum(@, input[t])]
    /\ pc' = [pc EXCEPT ![t] = "aa_avg"]
    /\ UNCHANGED <<keys, mu, aborted, input, res, ret, calls, raw, pre>>
    /\ UNCHANGED history

\* item.Avg = item.sum / float64(item.count+1), line 116.
AddActionAvg(t) ==
    /\ ~aborted /\ pc[t] = "aa_avg"
    /\ items' = [items EXCEPT ![input[t].Action] = SetAvg(@)]
    /\ pc' = [pc EXCEPT ![t] = "aa_count"]
    /\ UNCHANGED <<keys, mu, aborted, input, res, ret, calls, raw, pre>>
    /\ UNCHANGED history

\* Line 117 counting the event for every item.
AddActionCount_All(t) ==
    /\ ~aborted /\ pc[t] = "aa_count"
    /\ items' = [n \in DOMAIN items |-> IncCount(items[n])]
    /\ pc' = [pc EXCEPT ![t] = "aa_unlock"]
    /\ UNCHANGED <<keys, mu, aborted, input, res, ret, calls, raw, pre>>
    /\ UNCHANGED history

\* item.count++, line 117.
AddActionCount(t) ==
    /\ ~aborted /\ pc[t] = "aa_count"
    /\ items' = [items EXCEPT ![input[t].Action] = IncCount(@)]
    /\ pc' = [pc EXCEPT ![t] = "aa_unlock"]
    /\ UNCHANGED <<keys, mu, aborted, input, res, ret, calls, raw, pre>>
    /\ UNCHANGED history

\* return nil with the deferred acc.mu.Unlock(), lines 105 and 119.
AddActionUnlock(t) ==
    /\ ~aborted /\ pc[t] = "aa_unlock"
    /\ mu' = [mu EXCEPT !.writers = mu.writers - 1]
    /\ pc' = [pc EXCEPT ![t] = "aa_ret"]
    /\ ret' = [ret EXCEPT ![t] = [op |-> "AddAction", err |-> "", out |-> <<>>]]
    /\ recorded' = recorded \cup {input[t].Action}
    /\ committed' = Snapshot(keys, items)
    /\ seen' = [u \in Threads |-> IF pc[u] \in {"gs_rlock", "gs_copy", "gs_marshal", "gs_runlock"}
                                  THEN seen[u] \cup {Snapshot(keys, items)} ELSE seen[u]]
    /\ lastStats' = NoStats
    /\ succeeded' = succeeded (+) SetToBag({[name |-> input[t].Action, time |-> input[t].Time]})
    /\ UNCHANGED <<keys, items, aborted, input, res, calls, raw, pre, submitted, onlyValid, ins, drv>>

\* A call of GetStats, line 123.
GetStatsCall(t, budget) ==
    /\ ~aborted /\ pc[t] = "idle" /\ calls < budget
    /\ pc' = [pc EXCEPT ![t] = "gs_rlock"]
    /\ calls' = calls + 1
    /\ pre' = [pre EXCEPT ![t] = [set |-> TRUE, keys |-> keys, items |-> items]]
    /\ seen' = [seen EXCEPT ![t] = {committed}]
    /\ UNCHANGED <<keys, items, mu, aborted, input, res, ret, raw,
                   submitted, onlyValid, recorded, committed, lastStats, succeeded, ins, drv>>

\* acc.mu.RLock(), line 128.
GetStatsRLock(t) ==
    /\ ~aborted /\ pc[t] = "gs_rlock"
    /\ CanRLock(mu)
    /\ mu' = [mu EXCEPT !.readers = mu.readers + 1]
    /\ pc' = [pc EXCEPT ![t] = "gs_copy"]
    /\ UNCHANGED <<keys, items, aborted, input, res, ret, calls, raw, pre>>
    /\ UNCHANGED history

\* The loop of lines 129-132.
GetStatsCopy(t) ==
    /\ ~aborted /\ pc[t] = "gs_copy"
    /\ res' = [res EXCEPT ![t] = CopyPointers(keys, items)]
    /\ pc' = [pc EXCEPT ![t] = "gs_marshal"]
    /\ UNCHANGED <<keys, items, mu, aborted, input, ret, calls, raw, pre>>
    /\ UNCHANGED history

\* b, err := json.MarshalIndent(res, "", "  "), line 134.
GetStatsMarshal(t) ==
    /\ ~aborted /\ pc[t] = "gs_marshal"
    /\ ret' = [ret EXCEPT ![t] =
                [op |-> "marshalled", err |-> MarshalError(res[t], items),
                 out |-> IF MarshalError(res[t], items) = "" THEN MarshalIndent(res[t], items)
                         ELSE <<>>]]
    /\ pc' = [pc EXCEPT ![t] = "gs_runlock"]
    /\ UNCHANGED <<keys, items, mu, aborted, input, res, calls, raw, pre>>
    /\ UNCHANGED history

\* A GetStats that empties the accumulator once it has reported it.
GetStatsRUnlock_Reset(t) ==
    /\ ~aborted /\ pc[t] = "gs_runlock"
    /\ mu' = [mu EXCEPT !.readers = mu.readers - 1]
    /\ IF ret[t].err # ""
       THEN pc' = [pc EXCEPT ![t] = "panic"] /\ aborted' = TRUE /\ UNCHANGED ret
       ELSE /\ pc' = [pc EXCEPT ![t] = "gs_ret"]
            /\ ret' = [ret EXCEPT ![t] = [op |-> "GetStats", err |-> "", out |-> ret[t].out]]
            /\ UNCHANGED aborted
    /\ keys' = <<>>
    /\ items' = <<>>
    /\ UNCHANGED <<input, res, calls, raw, pre>>
    /\ UNCHANGED history

\* Lines 135-141 without the check of err: string(b) is returned as it is.
GetStatsRUnlock_NoPanic(t) ==
    /\ ~aborted /\ pc[t] = "gs_runlock"
    /\ mu' = [mu EXCEPT !.readers = mu.readers - 1]
    /\ ret' = [ret EXCEPT ![t] = [op |-> "GetStats", err |-> "", out |-> ret[t].out]]
    /\ pc' = [pc EXCEPT ![t] = "gs_ret"]
    /\ UNCHANGED <<keys, items, aborted, input, res, calls, raw, pre>>
    /\ UNCHANGED history

\* acc.mu.RUnlock(), the panic when err is not nil, and return string(b),
\* lines 135-141.
GetStatsRUnlock(t) ==
    /\ ~aborted /\ pc[t] = "gs_runlock"
    /\ mu' = [mu EXCEPT !.readers = mu.readers - 1]
    /\ IF ret[t].err # ""
       THEN pc' = [pc EXCEPT ![t] = "panic"] /\ aborted' = TRUE /\ UNCHANGED ret
       ELSE /\ pc' = [pc EXCEPT ![t] = "gs_ret"]
            /\ ret' = [ret EXCEPT ![t] = [op |-> "GetStats", err |-> "", out |-> ret[t].out]]
            /\ UNCHANGED aborted
    /\ UNCHANGED <<keys, items, input, res, calls, raw, pre>>
    /\ UNCHANGED history

\* The caller takes the result of the call and is free to call again.
Return(t) ==
    /\ ~aborted /\ pc[t] \in {"aa_ret", "gs_ret"}
    /\ pc' = [pc EXCEPT ![t] = "idle"]
    /\ input' = [input EXCEPT ![t] = NoInput]
    /\ res' = [res EXCEPT ![t] = <<>>]
    /\ ret' = [ret EXCEPT ![t] = NoRet]
    /\ raw' = [raw EXCEPT ![t] = NoRaw]
    /\ pre' = [pre EXCEPT ![t] = NoPre]
    /\ seen' = [seen EXCEPT ![t] = {}]
    /\ lastStats' = IF pc[t] = "gs_ret" THEN [some |-> TRUE, out |-> ret[t].out] ELSE lastStats
    /\ UNCHANGED <<keys, items, mu, aborted, calls, submitted, onlyValid, recorded, committed,
                   succeeded, ins, drv>>

Step(t, inputs, budget) ==
    \/ \E r \in inputs : AddActionCheck(t, r, budget)
    \/ AddActionLock(t)
    \/ AddActionLookup(t)
    \/ AddActionKeys(t)
    \/ AddActionItem(t)
    \/ AddActionSum(t)
    \/ AddActionAvg(t)
    \/ AddActionCount(t)
    \/ AddActionUnlock(t)
    \/ GetStatsCall(t, budget)
    \/ GetStatsRLock(t)
    \/ GetStatsCopy(t)
    \/ GetStatsMarshal(t)
    \/ GetStatsRUnlock(t)
    \/ Return(t)

\* Goroutines calling AddAction and GetStats concurrently.
Next == \E t \in Threads : Step(t, WorkerInputs, MaxCalls)

Spec == Init /\ [][Next]_vars

\* The goroutines under the Go scheduler: a goroutine that can take a step
\* takes one in the end, and so does one that waits for the mutex once it stays free.
FairSpec == Spec /\ \A t \in Threads : WF_vars(Step(t, WorkerInputs, MaxCalls))

\* One goroutine making its calls one after the other.
SeqNext == Step(Driver, RawInputs, MaxSeqCalls)

SeqSpec == Init /\ [][SeqNext]_vars

(***************************************************************************)
(* One goroutine submitting durations whose sum is beyond the float64      *)
(* range: Time and sum are float64 (lines 48 and 58), so two events of     *)
(* 1e308 for one name make sum and Avg +Inf.                               *)
(***************************************************************************)
Huge == MaxFloat \div 2 + 1

EncInputs ==
    {Object(Str(<<1>>), Num(Huge)), Object(Str(<<1>>), Num(1)), Object(Str(<<2>>), Num(0))}

EncNext == Step(Driver, EncInputs, MaxSeqCalls)

EncSpec == Init /\ [][EncNext]_vars

(***************************************************************************)
(* main (src/main.go 10-24): AddAction for each event of its list in turn, *)
(* exit at the first error, then GetStats once and print.  The list is     *)
(* any list of up to MaxEvents inputs, so that the error branch is taken.  *)
(***************************************************************************)
MainInputs ==
    {Object(Str(<<1>>), Num(1)), Object(Str(<<2>>), Num(2)), Object(Str(EmptyName), Num(1)),
     Object(Str(<<1>>), Num(-1)), NotObject("syntax"), NotObject("null")}

MainLists == UNION {[1..n -> MainInputs] : n \in 0..MaxEvents}

MainInit ==
    /\ NewAccumulator
    /\ ins = NoIns
    /\ drv \in {[list |-> l, state |-> "loop", err |-> "", printed |-> NoStats] : l \in MainLists}

\* acc.AddAction(inp) for the next event of the list, line 18.
MainAddAction ==
    /\ drv.state = "loop"
    /\ calls < Len(drv.list)
    /\ AddActionCheck(Driver, drv.list[calls + 1], Len(drv.list))

\* Lines 18-21 going on to the next event whatever err is.
MainCheckErr_Continue ==
    /\ drv.state = "loop" /\ pc[Driver] = "aa_ret"
    /\ Return(Driver)

\* if err != nil: print it and os.Exit(1), lines 18-21.
MainCheckErr ==
    /\ drv.state = "loop" /\ pc[Driver] = "aa_ret"
    /\ IF ret[Driver].err # ""
       THEN /\ drv' = [drv EXCEPT !.state = "exit", !.err = ret[Driver].err]
            /\ UNCHANGED <<keys, items, mu, aborted, pc, input, res, ret, calls, raw, pre,
                           submitted, onlyValid, recorded, committed, seen, lastStats,
                           succeeded, ins>>
       ELSE Return(Driver)

\* acc.GetStats() after the loop, line 23.
MainGetStats ==
    /\ drv.state = "loop"
    /\ calls = Len(drv.list)
    /\ GetStatsCall(Driver, Len(drv.list) + 1)

\* fmt.Println of the result, line 23, and the end of main.
MainPrint ==
    /\ drv.state = "loop" /\ pc[Driver] = "gs_ret"
    /\ drv' = [drv EXCEPT !.state = "done", !.printed = [some |-> TRUE, out |-> ret[Driver].out]]
    /\ UNCHANGED <<keys, items, mu, aborted, pc, input, res, ret, calls, raw, pre,
                   submitted, onlyValid, recorded, committed, seen, lastStats, succeeded, ins>>

MainNext ==
    \/ MainAddAction
    \/ AddActionLock(Driver)
    \/ AddActionLookup(Driver)
    \/ AddActionKeys(Driver)
    \/ AddActionItem(Driver)
    \/ AddActionSum(Driver)
    \/ AddActionAvg(Driver)
    \/ AddActionCount(Driver)
    \/ AddActionUnlock(Driver)
    \/ MainCheckErr
    \/ MainGetStats
    \/ GetStatsRLock(Driver)
    \/ GetStatsCopy(Driver)
    \/ GetStatsMarshal(Driver)
    \/ GetStatsRUnlock(Driver)
    \/ MainPrint

MainSpec == MainInit /\ [][MainNext]_vars

(***************************************************************************)
(* insertSorted on its own (src/main.go 146-174, and TestInsertSorted):    *)
(* it is given every key and every ascending list without duplicates of    *)
(* the strings up to MaxNameLen letters, and then its own result with a    *)
(* further key.                                                            *)
(***************************************************************************)
RECURSIVE StringsUpTo(_)
StringsUpTo(n) ==
    IF n = 0 THEN {<<>>}
    ELSE LET shorter == StringsUpTo(n - 1)
         IN  shorter \cup {Append(w, c) : w \in shorter, c \in {1, 2}}

InsStrings == StringsUpTo(MaxNameLen)

\* The strings of a set in ascending order.
RECURSIVE SortedSeq(_)
SortedSeq(S) ==
    IF S = {} THEN <<>>
    ELSE LET m == CHOOSE x \in S : \A y \in S : Compare(x, y) <= 0
         IN  <<m>> \o SortedSeq(S \ {m})

InsLists == {SortedSeq(S) : S \in {T \in SUBSET InsStrings : Cardinality(T) <= MaxListLen}}

InsInit ==
    /\ NewAccumulator
    /\ ins \in {[key |-> k, list |-> l, out |-> <<>>, done |-> FALSE] : k \in InsStrings, l \in InsLists}
    /\ drv = NoDrv

\* res := insertSorted(data.key, data.list)
InsertSortedCall ==
    /\ ~ins.done
    /\ ins' = [ins EXCEPT !.out = insertSorted(ins.key, ins.list), !.done = TRUE]
    /\ UNCHANGED <<keys, items, mu, aborted, pc, input, res, ret, calls, raw, pre,
                   submitted, onlyValid, recorded, committed, seen, lastStats, succeeded, drv>>

\* The result becomes the list of the next call.
InsertSortedAgain(k) ==
    /\ ins.done /\ Len(ins.out) <= MaxListLen
    /\ ins' = [key |-> k, list |-> ins.out, out |-> <<>>, done |-> FALSE]
    /\ UNCHANGED <<keys, items, mu, aborted, pc, input, res, ret, calls, raw, pre,
                   submitted, onlyValid, recorded, committed, seen, lastStats, succeeded, drv>>

InsNext ==
    \/ InsertSortedCall
    \/ \E k \in InsStrings : InsertSortedAgain(k)

InsSpec == InsInit /\ [][InsNext]_vars

(***************************************************************************)
(* What was submitted, from the bag of valid events.                       *)
(***************************************************************************)
RECURSIVE BagCount(_, _)
BagCount(S, B) ==
    IF S = {} THEN 0
    ELSE LET e == CHOOSE x \in S : TRUE IN CopiesIn(e, B) + BagCount(S \ {e}, B)

RECURSIVE BagTotal(_, _)
BagTotal(S, B) ==
    IF S = {} THEN 0
    ELSE LET e == CHOOSE x \in S : TRUE IN CopiesIn(e, B) * e.time + BagTotal(S \ {e}, B)

EventsOf(n) == {e \in BagToSet(submitted) : e.name = n}
SubmittedNames == {e.name : e \in BagToSet(submitted)}
SubmittedCount(n) == BagCount(EventsOf(n), submitted)
SubmittedTotal(n) == BagTotal(EventsOf(n), submitted)

\* The fraction avg is total / count.
IsMean(avg, total, count) == avg[1] * count = total * avg[2]

InWrite == {"aa_lookup", "aa_keys", "aa_item", "aa_sum", "aa_avg", "aa_count", "aa_unlock"}
InAddAction == {"aa_lock"} \cup InWrite
UnchangedSincePre(t) == pre[t].set /\ keys = pre[t].keys /\ items = pre[t].items

(***************************************************************************)
(* C1.  After valid events only, the average GetStats reports for each     *)
(* submitted name is the sum of the durations submitted for that name      *)
(* divided by the number of events submitted for it.                       *)
(***************************************************************************)
C1_StatsAreMeans ==
    \A t \in Threads :
        (pc[t] = "gs_ret" /\ onlyValid) =>
            \A n \in SubmittedNames :
                \E i \in 1..Len(ret[t].out) :
                    /\ ~ret[t].out[i].null
                    /\ ret[t].out[i].action = n
                    /\ IsMean(ret[t].out[i].avg, SubmittedTotal(n), SubmittedCount(n))

\* GetStats has returned two entries, one of them an average of two events
\* that is not a whole number.
C1_Witness ==
    /\ pc[Driver] = "gs_ret" /\ onlyValid
    /\ Len(ret[Driver].out) = 2
    /\ \E i \in 1..2 : ret[Driver].out[i].avg[2] = 2

(***************************************************************************)
(* C2.  GetStats returns one entry for each name an AddAction call         *)
(* recorded and no other entry, in strictly ascending order of name.       *)
(***************************************************************************)
C2_OneEntryPerNameAscending ==
    \A t \in Threads :
        pc[t] = "gs_ret" =>
            LET out == ret[t].out
            IN  /\ \A i \in 1..Len(out) : ~out[i].null
                /\ {out[i].action : i \in 1..Len(out)} = recorded
                /\ \A i \in 1..(Len(out) - 1) : Compare(out[i].action, out[i + 1].action) = -1

\* GetStats has returned all three names.
C2_Witness ==
    /\ pc[Driver] = "gs_ret"
    /\ Len(ret[Driver].out) = 3
    /\ Cardinality(recorded) = 3

(***************************************************************************)
(* C3.  Once every call of the concurrent goroutines has returned, and     *)
(* only valid events were submitted, each name holds the count of the      *)
(* events submitted for it and their mean, and no other name is held.      *)
(***************************************************************************)
C3_NoLostUpdate ==
    ((\A t \in Threads : pc[t] = "idle") /\ onlyValid) =>
        /\ DOMAIN items = SubmittedNames
        /\ \A n \in SubmittedNames :
            /\ items[n].count = SubmittedCount(n)
            /\ IsMean(items[n].Avg, SubmittedTotal(n), SubmittedCount(n))

\* Every call has returned, some name holds two events or more, and the last
\* GetStats call returned after an AddAction call that it had not seen.
C3_Witness ==
    /\ \A t \in Threads : pc[t] = "idle"
    /\ onlyValid
    /\ \E n \in DOMAIN items : items[n].count >= 2
    /\ lastStats.some /\ lastStats.out # Snapshot(keys, items)

(***************************************************************************)
(* C4.  What GetStats returns is the snapshot of one state the accumulator *)
(* was in between the call and its return, after a whole number of         *)
(* AddAction calls, and has no entry for a key without its item.           *)
(***************************************************************************)
C4_PointInTimeSnapshot ==
    \A t \in Threads :
        pc[t] = "gs_ret" =>
            /\ ret[t].out \in seen[t]
            /\ \A i \in 1..Len(ret[t].out) : ~ret[t].out[i].null

\* GetStats has returned a snapshot with an entry, and an AddAction call
\* completed while the GetStats call was in progress.
C4_Witness ==
    \E t \in Threads :
        /\ pc[t] = "gs_ret"
        /\ Cardinality(seen[t]) >= 2
        /\ Len(ret[t].out) >= 1

(***************************************************************************)
(* C5.  An AddAction call whose event has an empty or missing action name  *)
(* returns an error and leaves keys and items as they were.                *)
(***************************************************************************)
NameMissing(r) ==
    /\ r.kind = "object"
    /\ r.action.t = "absent" \/ (r.action.t = "string" /\ r.action.s = EmptyName)

C5_MissingNameRejected ==
    \A t \in Threads :
        NameMissing(raw[t]) =>
            /\ pc[t] = "aa_ret"
            /\ ret[t].err # ""
            /\ UnchangedSincePre(t)

\* The call is rejected for its missing name while the accumulator holds items.
C5_Witness ==
    /\ NameMissing(raw[Driver]) /\ raw[Driver].time.t = "number" /\ raw[Driver].time.n >= 0
    /\ pc[Driver] = "aa_ret"
    /\ ret[Driver].err = "missing action"
    /\ Len(keys) >= 1

(***************************************************************************)
(* C6.  An AddAction call whose event carries a negative duration returns  *)
(* an error and leaves keys and items as they were, whether or not the     *)
(* name is present.                                                        *)
(***************************************************************************)
NegativeTime(r) == r.kind = "object" /\ r.time.t = "number" /\ r.time.n < 0

C6_NegativeTimeRejected ==
    \A t \in Threads :
        NegativeTime(raw[t]) =>
            /\ pc[t] = "aa_ret"
            /\ ret[t].err # ""
            /\ UnchangedSincePre(t)

\* The call is rejected for its negative duration, and its name is present.
C6_Witness ==
    /\ NegativeTime(raw[Driver]) /\ raw[Driver].action.t = "string"
    /\ pc[Driver] = "aa_ret"
    /\ ret[Driver].err = "negative time"
    /\ raw[Driver].action.s \in DOMAIN items

(***************************************************************************)
(* C7.  An AddAction call whose input cannot be decoded into an object     *)
(* with a text name and a numeric duration returns an error, does not      *)
(* abort, and leaves keys and items as they were.                          *)
(***************************************************************************)
Undecodable(r) ==
    \/ r.kind \in {"syntax", "null", "array"}
    \/ r.kind = "object" /\ (r.action.t = "number" \/ r.time.t = "string")

C7_UndecodableRejected ==
    /\ ~aborted
    /\ \A t \in Threads :
        Undecodable(raw[t]) =>
            /\ pc[t] = "aa_ret"
            /\ ret[t].err # ""
            /\ UnchangedSincePre(t)

(***************************************************************************)
(* C8.  An AddAction call whose event lacks its action name or its         *)
(* duration returns an error before keys or items are touched, and the     *)
(* event is not recorded.                                                  *)
(***************************************************************************)
FieldMissing(r) == r.kind = "object" /\ (r.action.t = "absent" \/ r.time.t = "absent")

C8_MissingFieldRejected ==
    \A t \in Threads :
        (FieldMissing(raw[t]) /\ pc[t] = "aa_ret") =>
            /\ ret[t].err # ""
            /\ UnchangedSincePre(t)
            /\ raw[t].action.s \notin recorded

(***************************************************************************)
(* C9.  GetStats leaves keys and items as they were, and returns what the  *)
(* GetStats call before it returned when no AddAction call succeeded in    *)
(* between.                                                                *)
(***************************************************************************)
C9_GetStatsReadOnly ==
    \A t \in Threads :
        pc[t] = "gs_ret" =>
            /\ UnchangedSincePre(t)
            /\ lastStats.some => ret[t].out = lastStats.out

\* The second of two GetStats calls in a row has returned a snapshot with
\* an entry.
C9_Witness ==
    /\ pc[Driver] = "gs_ret"
    /\ lastStats.some
    /\ Len(ret[Driver].out) >= 1

SucceededOf(n) == {e \in BagToSet(succeeded) : e.name = n}
SucceededNames == {e.name : e \in BagToSet(succeeded)}
SucceededCount(n) == BagCount(SucceededOf(n), succeeded)
SucceededTotal(n) == BagTotal(SucceededOf(n), succeeded)

InRead == {"gs_copy", "gs_marshal", "gs_runlock"}
NoWriter == \A t \in Threads : pc[t] \notin InWrite
KeySet == {keys[i] : i \in 1..Len(keys)}
Ascending(l) == \A i \in 1..(Len(l) - 1) : Compare(l[i], l[i + 1]) = -1

(***************************************************************************)
(* C11.  While a goroutine is inside AddAction's write critical section,   *)
(* no other goroutine is inside a write critical section or inside         *)
(* GetStats's read critical section.                                       *)
(***************************************************************************)
C11_MutualExclusion ==
    \A t, u \in Threads :
        (t # u /\ pc[t] \in InWrite) => pc[u] \notin (InWrite \cup InRead)

\* One goroutine is changing an item while the other waits at Lock or RLock.
C11_Witness ==
    \E t, u \in Threads :
        /\ pc[t] \in {"aa_sum", "aa_avg", "aa_count"}
        /\ pc[u] \in {"aa_lock", "gs_rlock"}

(***************************************************************************)
(* C12.  GetStats has released the read lock when it encodes the result:   *)
(* the goroutine that encodes holds no read lock, and a writer waiting at  *)
(* Lock while the other goroutine encodes can take the lock.               *)
(***************************************************************************)
C12_EncodeAfterRUnlock ==
    \A t \in Threads :
        pc[t] = "gs_marshal" =>
            /\ mu.readers = Cardinality({u \in Threads \ {t} : pc[u] \in InRead})
            /\ \A u \in Threads \ {t} : pc[u] = "aa_lock" => CanLock(mu)

(***************************************************************************)
(* C13.  GetStats on an accumulator in which no event has been recorded    *)
(* returns the empty sequence, with no error and no abort.                 *)
(***************************************************************************)
C13_EmptyStats ==
    \A t \in Threads :
        (pc[t] = "gs_ret" /\ recorded = {}) =>
            /\ ret[t].out = <<>>
            /\ ret[t].err = ""
            /\ ~aborted

\* GetStats has returned after a rejected AddAction call and nothing is recorded.
C13_Witness ==
    /\ pc[Driver] = "gs_ret"
    /\ recorded = {}
    /\ ~onlyValid

(***************************************************************************)
(* C14.  Whenever no goroutine is inside the write critical section, the   *)
(* names in keys are exactly the keys of items.                            *)
(***************************************************************************)
C14_KeysMatchItems == NoWriter => KeySet = DOMAIN items

\* A reader is inside the read critical section of an accumulator of two
\* names or more.
C14_Witness ==
    /\ NoWriter
    /\ Len(keys) >= 2
    /\ \E t \in Threads : pc[t] \in InRead

(***************************************************************************)
(* C15.  In every state keys is strictly ascending by name, so it holds no *)
(* name twice.                                                             *)
(***************************************************************************)
C15_KeysAscending == Ascending(keys)

\* Three names have been inserted, the last of them not at the end.
C15_Witness ==
    /\ Len(keys) = 3
    /\ \E t \in Threads : pc[t] = "aa_item" /\ input[t].Action # keys[3]

(***************************************************************************)
(* C16.  Whenever no goroutine is inside the write critical section, items *)
(* holds the names of the calls that succeeded, and each item has a count  *)
(* of at least one that is the number of those calls for its name, a sum   *)
(* that is the total of their durations, and an average of sum / count.    *)
(***************************************************************************)
C16_ItemsMatchSucceeded ==
    NoWriter =>
        /\ DOMAIN items = SucceededNames
        /\ \A n \in DOMAIN items :
            /\ items[n].count >= 1
            /\ items[n].count = SucceededCount(n)
            /\ items[n].sum = SucceededTotal(n)
            /\ IsMean(items[n].Avg, items[n].sum, items[n].count)

\* A name holds two events with a sum that is not a multiple of the count,
\* while a third call has not yet taken the lock.
C16_Witness ==
    /\ NoWriter
    /\ \E n \in DOMAIN items : items[n].count = 2 /\ items[n].Avg[2] = 2
    /\ \E t \in Threads : pc[t] = "aa_lock"

(***************************************************************************)
(* C17.  For a strictly ascending list and a key that is not in it,        *)
(* insertSorted returns a strictly ascending list, one longer, whose       *)
(* elements are those of the list and the key, with the key right before   *)
(* the leftmost element greater than it, or at the end when there is none. *)
(***************************************************************************)
C17_InsertsInOrder ==
    (ins.done /\ Ascending(ins.list) /\ \A i \in 1..Len(ins.list) : ins.list[i] # ins.key) =>
        LET l == ins.list
            o == ins.out
        IN  /\ Len(o) = Len(l) + 1
            /\ Ascending(o)
            /\ {o[i] : i \in 1..Len(o)} = {l[i] : i \in 1..Len(l)} \cup {ins.key}
            /\ \E p \in 1..Len(o) :
                /\ o[p] = ins.key
                /\ \A j \in 1..(p - 1) : o[j] = l[j] /\ Compare(l[j], ins.key) = -1
                /\ \A j \in p..Len(l) : o[j + 1] = l[j]
                /\ p <= Len(l) => Compare(l[p], ins.key) = 1

\* A key has been inserted inside a list of three elements or more.
C17_Witness ==
    /\ ins.done
    /\ Len(ins.list) >= 3
    /\ Len(ins.out) = Len(ins.list) + 1
    /\ ins.out[2] = ins.key

(***************************************************************************)
(* C18.  For a strictly ascending list and a key that is in it, first,     *)
(* middle or last, insertSorted returns the list unchanged.                *)
(***************************************************************************)
C18_PresentKeyUnchanged ==
    (ins.done /\ Ascending(ins.list) /\ \E i \in 1..Len(ins.list) : ins.list[i] = ins.key) =>
        ins.out = ins.list

\* insertSorted was given the last element of a list of four.
C18_Witness ==
    /\ ins.done
    /\ Len(ins.list) = 4
    /\ ins.list[4] = ins.key
    /\ ins.out = ins.list

(***************************************************************************)
(* C19.  An AddAction call with invalid input (undecodable, empty name or  *)
(* negative duration) returns its error and is never at Lock nor inside    *)
(* the critical section, whoever holds the lock.                           *)
(***************************************************************************)
InvalidInput(r) == Undecodable(r) \/ NameMissing(r) \/ NegativeTime(r)

C19_InvalidNeverLocks ==
    \A t \in Threads :
        InvalidInput(raw[t]) =>
            /\ pc[t] = "aa_ret"
            /\ ret[t].err # ""

(***************************************************************************)
(* C20.  No step removes a name from items or from keys, nor lowers the    *)
(* count of an item.                                                       *)
(***************************************************************************)
C20_OnlyGrows ==
    [][/\ \A n \in DOMAIN items : n \in DOMAIN items' /\ items'[n].count >= items[n].count
       /\ \A i \in 1..Len(keys) : \E j \in 1..Len(keys') : keys'[j] = keys[i]]_vars

\* GetStats has returned from an accumulator in which a count has grown.
C20_Witness ==
    /\ \E n \in DOMAIN items : items[n].count >= 2
    /\ \E t \in Threads : pc[t] = "gs_ret"

(***************************************************************************)
(* C21.  Under fair scheduling every call of AddAction or GetStats that is *)
(* in progress returns in the end, and the mutex has no holder whenever no *)
(* goroutine is between taking it and releasing it.                        *)
(***************************************************************************)
InCall(t) == pc[t] \notin {"idle", "aa_ret", "gs_ret"}

C21_CallsReturn ==
    /\ \A t \in Threads : InCall(t) ~> (pc[t] \in {"aa_ret", "gs_ret"})
    /\ [](((\A t \in Threads : pc[t] \notin (InWrite \cup InRead)) => (mu.writers = 0 /\ mu.readers = 0)))

(***************************************************************************)
(* C22.  A GetStats call waiting at RLock can take the read lock exactly   *)
(* when no write is in progress, whether or not another GetStats call      *)
(* holds a read lock.                                                      *)
(***************************************************************************)
C22_ReadersShare ==
    \A t \in Threads : pc[t] = "gs_rlock" => (CanRLock(mu) <=> NoWriter)

\* Both goroutines are inside the read critical section.
C22_Witness ==
    /\ \A t \in Threads : pc[t] \in InRead
    /\ mu.readers = Cardinality(Threads)

(***************************************************************************)
(* C23.  A step of AddAction's critical section leaves every item but the  *)
(* one of its own name as it was, and when the name is already in items it *)
(* changes neither keys nor the key set of items.                          *)
(***************************************************************************)
C23_OnlyOwnEntry ==
    [][\A t \in Threads :
        (pc[t] \in InWrite /\ pc'[t] # pc[t]) =>
            /\ \A n \in DOMAIN items \ {input[t].Action} :
                n \in DOMAIN items' /\ items'[n] = items[n]
            /\ input[t].Action \in DOMAIN items =>
                (keys' = keys /\ DOMAIN items' = DOMAIN items)]_vars

\* AddAction has returned nil for a name that was present, with another name
\* in the accumulator.
C23_Witness ==
    \E t \in Threads :
        /\ pc[t] = "aa_ret" /\ ret[t].err = ""
        /\ input[t].Action \in DOMAIN items
        /\ items[input[t].Action].count >= 2
        /\ Len(keys) >= 2

(***************************************************************************)
(* C24.  Every item stored under a key k has the name k, which is not      *)
(* empty, and no step changes the name of an item.                         *)
(***************************************************************************)
C24_NameIsKey ==
    /\ [](\A k \in DOMAIN items : items[k].Action = k /\ k # EmptyName)
    /\ [][\A k \in DOMAIN items : k \in DOMAIN items' => items'[k].Action = items[k].Action]_vars

\* An item has been updated after its creation, and an empty name was refused.
C24_Witness ==
    /\ \E k \in DOMAIN items : items[k].count >= 2
    /\ pc[Driver] = "aa_ret" /\ NameMissing(raw[Driver])

(***************************************************************************)
(* C25.  When MarshalIndent fails, GetStats panics: it never returns, and  *)
(* a GetStats call that returns gives the complete encoding of every key,  *)
(* with no entry missing, null or not finite.                              *)
(***************************************************************************)
EncodingFailed(t) == ret[t].op = "marshalled" /\ ret[t].err # ""

C25_EncodeFailurePanics ==
    \A t \in Threads :
        /\ EncodingFailed(t) => pc[t] \in {"gs_runlock", "panic"}
        /\ (EncodingFailed(t) /\ pc[t] = "panic") => aborted
        /\ pc[t] = "gs_ret" =>
            /\ ret[t].err = ""
            /\ \A k \in DOMAIN items : items[k].Avg # InfAvg
            /\ Len(ret[t].out) = Len(keys)
            /\ \A i \in 1..Len(ret[t].out) :
                ~ret[t].out[i].null /\ ret[t].out[i].avg # InfAvg

\* GetStats has panicked on an average of +Inf, with the read lock released.
C25_Witness ==
    /\ pc[Driver] = "panic"
    /\ EncodingFailed(Driver)
    /\ aborted
    /\ mu.readers = 0
    /\ Len(keys) = 2

(***************************************************************************)
(* C26.  The driver submits its events one after the other and no event    *)
(* after the first one that AddAction refuses: it then exits with nothing  *)
(* printed and GetStats not called.  GetStats is called only when all      *)
(* events were recorded, once, after the last of them, and its result is   *)
(* what is printed.                                                        *)
(***************************************************************************)
Refused(r) == InputError(Unmarshal(r)) # ""

\* The index of the first event of the list that AddAction refuses, and one
\* more than the length of the list when there is none.
FirstRefused(l) ==
    IF \E i \in 1..Len(l) : Refused(l[i])
    THEN CHOOSE i \in 1..Len(l) : Refused(l[i]) /\ \A j \in 1..(i - 1) : ~Refused(l[j])
    ELSE Len(l) + 1

InGetStats(t) == pc[t] \in {"gs_rlock", "gs_copy", "gs_marshal", "gs_runlock", "gs_ret"}

C26_DriverStopsAtFirstError ==
    LET n == Len(drv.list)
        f == FirstRefused(drv.list)
    IN  /\ calls <= f
        /\ (InGetStats(Driver) \/ drv.printed.some) => (f = n + 1 /\ calls = n + 1)
        /\ drv.state = "exit" =>
            /\ f <= n /\ calls = f
            /\ pc[Driver] = "aa_ret" /\ drv.err # ""
            /\ ~drv.printed.some
        /\ drv.state = "done" =>
            /\ drv.printed.some
            /\ drv.printed.out = Snapshot(keys, items)
            /\ BagCardinality(succeeded) = n

\* The driver has exited on the error of its second event of three.
C26_Witness ==
    /\ drv.state = "exit"
    /\ Len(drv.list) = 3
    /\ calls = 2
    /\ Len(keys) = 1

====
